---- MODULE Spec2Model ----
(***************************************************************************)
(* State-machine model of the two chat pipelines of finance-agent-demo:    *)
(*   local_web_search.py  (Tavily search + local Ollama model, streamed)   *)
(*   web_search_agent.py  (Perplexity fused search+answer, one call)       *)
(* One behaviour runs one of the two programs (variable variant).  A       *)
(* Streamlit script run is a chain of steps cut where the script waits for *)
(* the network: the model list the local sidebar asks for at the start of  *)
(* every run, the search call, the API call, and each chunk of the local   *)
(* token stream.  A widget event that arrives while a run waits stops that *)
(* run and starts the next one, so every user operation is enabled at      *)
(* every position.  Python strings are TLA+ strings and string building is *)
(* \o, lists are sequences, dicts are records.                             *)
(***************************************************************************)
EXTENDS Integers, Sequences, FiniteSets, TLC

VARIABLES
    variant,        \* which program runs: "local" or "remote"
    key,            \* sidebar credential: tavily_key / api_key
    model_names,    \* options of the model selectbox as it was last drawn
    selected_model, \* value the session holds for the model selectbox, which
                    \* st.selectbox returns: selected_model / model
    messages,       \* st.session_state.messages
    pc,             \* "idle": no run active; "listing", "searching", "calling",
                    \* "streaming": a run waits in ollama.list, tavily.search,
                    \* requests.post, the chunk loop
    prompt,         \* the query of the current script run ("" when the run has none)
    tavily,         \* outcome of tavily.search in this run
    context,        \* search_web's first return value ([none |-> TRUE] is Python None)
    citations,      \* script variable citations
    stream,         \* chunks the generator returned by ollama.chat still has to yield
    chunks,         \* chunks this run has taken from the generator, in arrival order
    full_response,  \* script variable full_response
    placeholder,    \* what response_placeholder / message_placeholder shows
    result,         \* return value of query_perplexity in this run
    sent,           \* the request handed to the model API in this run
    calls,          \* network calls made in this run: search, chat, api, list
    ui_error,       \* text of the last st.error this run has made, or of the
                    \* exception box drawn for an uncaught exception ("" when none)
    status,         \* state of status_box in this run
    before,         \* st.session_state.messages when this run started
    produced,       \* citation list the search / API produced for this run's query
    origin,         \* per stored turn, the value of produced of the run that stored it
    malformed,      \* since the last reset, an API response was neither answer nor error
    interrupted,    \* since the last reset, a run was stopped while it waited
    event           \* the operation that made the last step

vars == <<variant, key, model_names, selected_model, messages, pc, prompt, tavily,
          context, citations, stream, chunks, full_response, placeholder, result,
          sent, calls, ui_error, status, before, produced, origin, malformed,
          interrupted, event>>

----------------------------------------------------------------------------
(* Bounds of the model *)

MaxHist == 4        \* a query is accepted while the history has room for a whole turn

(* Inputs *)

Prompts == {"AAPL 10-K", "GOOG Q4"}
Keys == {"", "secret"}

\* what ollama.list() can do in the sidebar: return the installed models
\* (ok), or raise
OllamaLists ==
    { [ok |-> TRUE, models |-> <<"llama3", "qwen2.5:7b">>],
      [ok |-> TRUE, models |-> <<"llama3", "mistral">>],
      [ok |-> TRUE, models |-> <<>>],
      [ok |-> FALSE] }

\* the options of the remote program's "Select Model" box
RemoteModels == <<"sonar", "sonar-reasoning">>

Result1 == [title |-> "Q4 results", url |-> "https://a.example/q4", content |-> "Revenue up 10%"]
Result2 == [title |-> "10-K", url |-> "https://b.example/10k", content |-> "Margins flat"]

\* what tavily.search can do: return a response dict with a result list, or raise
TavilyOutcomes ==
    { [ok |-> TRUE, results |-> r] :
        r \in { <<>>, <<Result1, Result2>>, <<Result2, Result1>>,
                <<Result2, Result2, Result1>> } }
        \cup { [ok |-> FALSE, error |-> "rate limited"] }

\* what the generator returned by ollama.chat can yield
Streams ==
    { <<>>, <<"Rev", "enue up">>, <<"enue up", "Rev">>,
      <<"Rev", "enue up", " 10%.">> }

\* what query_perplexity can return: the response JSON with or without a
\* citations key, the error object, or a JSON body of neither shape
PerplexityResults ==
    { [choices |-> <<[message |-> [content |-> "## Summary"]]>>, citations |-> c] :
        c \in { <<>>, <<"https://sec.example/x">>,
                <<"https://sec.example/x", "https://ir.example/y">>,
                <<"https://ir.example/y", "https://sec.example/x">> } }
        \cup { [choices |-> <<[message |-> [content |-> "## Summary"]]>>] }
        \cup { [error |-> "rate limited"] }
        \cup { [detail |-> "unexpected body"] }

----------------------------------------------------------------------------
(* Values *)

None == [none |-> TRUE]
Text(s) == [none |-> FALSE, text |-> s]
Unset == [unset |-> TRUE]
\* calls a run has made once its sidebar code has started: the local sidebar
\* asks the model service for its model list in every run, before anything
\* else of the run is decided
SidebarCalls(v) ==
    [search |-> 0, chat |-> 0, api |-> 0, list |-> IF v = "local" THEN 1 ELSE 0]

\* the sidebar's status badge: the local program calls st.error when the key is empty
SidebarError(v, k) == IF v = "local" /\ k = "" THEN "Tavily: Missing Key" ELSE ""

\* model_names of the local sidebar: the listed names, or the fallback
ModelNames(listing) == IF listing.ok THEN listing.models ELSE <<"qwen2.5:7b">>

\* the selectbox's initial value: options[index], None for no options; the
\* local index is that of "qwen2.5:7b" if listed and 0 otherwise, the remote
\* index is 0
DefaultModel(names) ==
    IF names = <<>> THEN None
    ELSE IF \E i \in 1..Len(names) : names[i] = "qwen2.5:7b" THEN "qwen2.5:7b"
    ELSE names[1]

\* where a run that has just started waits first: the local sidebar waits
\* for ollama.list(); a remote run without a query meets no wait and ends
FirstWait(v) == IF v = "local" THEN "listing" ELSE "idle"

\* what st.selectbox can return when it is drawn with options names, the
\* session holding value for the box last drawn with options old_names:
\* the held value while the options are the same, None for no options.
\* How the framework carries a held value over to other options is not
\* decided by this program: every option is a possible outcome.
SelectboxValues(names, old_names, value) ==
    IF names = old_names THEN {value}
    ELSE IF names = <<>> THEN {None}
    ELSE {names[i] : i \in 1..Len(names)}

Cursor == "▌"

\* Python truthiness of search_web's first return value
Truthy(c) == ~c.none /\ c.text # ""

UserTurn(p) == [role |-> "user", content |-> p]

\* (variant of AssistantTurn: the citation list is not attached)
AssistantTurnBare(response, cites) ==
    [role |-> "assistant", content |-> response, citations |-> <<>>]

\* the dict stored after an answer: role, content, citations
AssistantTurn(response, cites) ==
    [role |-> "assistant", content |-> response, citations |-> cites]

\* (variant of AppendTurn: assignment in place of append)
AppendTurnReplacing(history, turn) == <<turn>>

\* st.session_state.messages.append(turn)
AppendTurn(history, turn) == Append(history, turn)

\* (variant of CredentialMissing: the check is left out)
CredentialNeverMissing(k) == FALSE

\* "if not tavily_key" / "if not api_key"
CredentialMissing(k) == k = ""

----------------------------------------------------------------------------
(* local_web_search.py *)

\* (variant of ContextAdd: the block is put in front)
ContextAddFront(context_text, r) ==
    "\n---\nTitle: " \o r.title \o "\nURL: " \o r.url
        \o "\nContent: " \o r.content \o "\n" \o context_text

\* one pass of the loop body of search_web: the block added to context_text
ContextAdd(context_text, r) ==
    context_text \o "\n---\nTitle: " \o r.title \o "\nURL: " \o r.url
                 \o "\nContent: " \o r.content \o "\n"

\* one pass of the loop body of search_web: the entry added to citations
Citation(r) == "[" \o r.title \o "](" \o r.url \o ")"

\* the for loop of search_web, from result i on
RECURSIVE FormatLoop(_, _, _, _)
FormatLoop(results, i, context_text, cites) ==
    IF i > Len(results)
    THEN <<Text(context_text), cites>>
    ELSE FormatLoop(results, i + 1, ContextAdd(context_text, results[i]),
                    Append(cites, Citation(results[i])))

\* search_web(query, key): outcome is what tavily.search did with them
search_web(query, k, outcome) ==
    IF outcome.ok
    THEN FormatLoop(outcome.results, 1, "", <<>>)
    ELSE <<None, <<"Search Error: " \o outcome.error>>>>

\* (variant of SearchFailed: only the empty string counts as a failure)
SearchFailedOnEmptyOnly(c) == ~c.none /\ c.text = ""

\* "if not context" in the main script
SearchFailed(c) == ~Truthy(c)

\* the fixed system text, cut to its first sentence (no operation reads into it)
LocalSystemPrompt == "You are a Senior Financial Analyst."

\* "{search_context}" inside the f-string of final_prompt
Formatted(c) == IF c.none THEN "None" ELSE c.text

\* the request run_local_analyst hands to ollama.chat (final_prompt without
\* the indentation of its source lines)
run_local_analyst(query, search_context, model) ==
    [model |-> model,
     messages |->
        << [role |-> "system", content |-> LocalSystemPrompt],
           [role |-> "user",
            content |-> "\n### CONTEXT FROM WEB SEARCH:\n" \o Formatted(search_context)
                        \o "\n\n### USER QUESTION:\n" \o query
                        \o "\n\n### YOUR ANALYSIS:\n"] >>,
     stream |-> TRUE]

\* (variant of Accumulate: the chunk is put in front)
AccumulateFront(response, content) == content \o response

\* "full_response += content"
Accumulate(response, content) == response \o content


\* the script variables of a run that has just started and reached none of
\* its assignments yet
ScriptVarsFresh ==
    /\ before' = messages
    /\ tavily' = Unset
    /\ context' = Unset
    /\ citations' = <<>>
    /\ produced' = <<>>
    /\ stream' = <<>>
    /\ chunks' = <<>>
    /\ full_response' = ""
    /\ placeholder' = ""
    /\ result' = Unset

\* a run that starts while another one waits stops that one for good
StopsPendingRun == interrupted' = (interrupted \/ pc # "idle")

\* a query is submitted to the local program: the script reruns with the
\* query as the value of st.chat_input, and its sidebar calls ollama.list()
LocalSubmit(p) ==
    /\ variant = "local"
    /\ Len(messages) + 2 <= MaxHist
    /\ event' = "Submit"
    /\ prompt' = p
    /\ ScriptVarsFresh
    /\ StopsPendingRun
    /\ sent' = Unset
    /\ calls' = SidebarCalls(variant)
    /\ ui_error' = ""
    /\ status' = "none"
    /\ pc' = FirstWait(variant)
    /\ UNCHANGED <<variant, key, model_names, selected_model, messages, origin,
                   malformed>>

\* ollama.list() returns or raises: the rest of the sidebar (model_names,
\* the selectbox, the status badge), the history, and for a run with a query
\* the Input Area: credential check, user turn, and the call of
\* tavily.search inside search_web
ListReturn(listing) ==
    /\ pc = "listing"
    /\ event' = "ListReturn"
    /\ model_names' = ModelNames(listing)
    /\ selected_model' \in SelectboxValues(model_names', model_names, selected_model)
    /\ IF prompt = ""
       THEN /\ ui_error' = SidebarError(variant, key)
            /\ pc' = "idle"
            /\ UNCHANGED <<messages, origin, status, calls>>
       ELSE IF CredentialMissing(key)
       THEN /\ ui_error' = "Please enter your Tavily API Key in the sidebar."
            /\ pc' = "idle"
            /\ UNCHANGED <<messages, origin, status, calls>>
       ELSE /\ messages' = AppendTurn(messages, UserTurn(prompt))
            /\ origin' = Append(origin, <<>>)
            /\ ui_error' = SidebarError(variant, key)
            /\ status' = "running"
            /\ calls' = [calls EXCEPT !.search = 1]
            /\ pc' = "searching"
    /\ UNCHANGED <<variant, key, prompt, tavily, context, citations, stream, chunks,
                   full_response, placeholder, result, sent, before, produced,
                   malformed, interrupted>>

\* tavily.search returns or raises: the rest of search_web, the test of its
\* result, and on success the call that opens the model stream
SearchReturn(outcome, s) ==
    /\ pc = "searching"
    /\ event' = "SearchReturn"
    /\ LET sw == search_web(prompt, key, outcome) IN
       /\ tavily' = outcome
       /\ context' = sw[1]
       /\ citations' = sw[2]
       /\ produced' = sw[2]
       /\ IF SearchFailed(sw[1])
          THEN /\ status' = "error"
               /\ ui_error' = "Could not retrieve search results."
               /\ pc' = "idle"
               /\ UNCHANGED <<calls, sent, stream>>
          ELSE /\ calls' = [calls EXCEPT !.chat = 1]
               /\ sent' = run_local_analyst(prompt, sw[1], selected_model)
               /\ stream' = s
               /\ pc' = "streaming"
               /\ UNCHANGED <<status, ui_error>>
    /\ UNCHANGED <<variant, key, model_names, selected_model, messages, prompt, chunks,
                   full_response, placeholder, result, before, origin, malformed,
                   interrupted>>

\* one pass of "for chunk in stream"
StreamChunk ==
    /\ pc = "streaming"
    /\ stream # <<>>
    /\ event' = "Chunk"
    /\ chunks' = Append(chunks, Head(stream))
    /\ stream' = Tail(stream)
    /\ full_response' = Accumulate(full_response, Head(stream))
    /\ placeholder' = full_response' \o Cursor
    /\ UNCHANGED <<variant, key, model_names, selected_model, messages, pc, prompt,
                   tavily, context, citations, result, sent, calls, ui_error, status,
                   before, produced, origin, malformed, interrupted>>

\* the stream is exhausted: final render, status, and the assistant turn
StreamEnd ==
    /\ pc = "streaming"
    /\ stream = <<>>
    /\ event' = "StreamEnd"
    /\ placeholder' = full_response
    /\ status' = "complete"
    /\ messages' = AppendTurn(messages, AssistantTurn(full_response, citations))
    /\ origin' = Append(origin, produced)
    /\ pc' = "idle"
    /\ UNCHANGED <<variant, key, model_names, selected_model, prompt, tavily, context,
                   citations, stream, chunks, full_response, result, sent, calls,
                   ui_error, before, produced, malformed, interrupted>>

\* the model service fails while the stream is read: the exception leaves
\* the script, nothing after the loop runs
StreamError ==
    /\ pc = "streaming"
    /\ event' = "StreamError"
    /\ ui_error' = "ollama exception"
    /\ stream' = <<>>
    /\ pc' = "idle"
    /\ UNCHANGED <<variant, key, model_names, selected_model, messages, prompt, tavily,
                   context, citations, chunks, full_response, placeholder, result,
                   sent, calls, status, before, produced, origin, malformed,
                   interrupted>>

----------------------------------------------------------------------------
(* web_search_agent.py *)

\* the fixed system text, cut to its first sentence (no operation reads into it)
RemoteSystemInstruction == "You are a Senior Equity Research Associate assisting a Portfolio Manager."

\* (variant of StripTurns: only the latest turn is sent)
StripTurnsLatest(history) ==
    <<[role |-> history[Len(history)].role, content |-> history[Len(history)].content]>>

\* the list comprehension building api_messages from the history
StripTurns(history) ==
    [i \in 1..Len(history) |-> [role |-> history[i].role, content |-> history[i].content]]

\* api_messages after "api_messages.insert(0, system)"
ApiMessages(history) ==
    <<[role |-> "system", content |-> RemoteSystemInstruction]>> \o StripTurns(history)

\* the payload query_perplexity posts
query_perplexity(msgs, k, model_name) ==
    [model |-> model_name, messages |-> msgs, return_citations |-> TRUE]

\* 'if "error" in result'
IsError(r) == "error" \in DOMAIN r

\* result.get('citations', [])
ResultCitations(r) == IF "citations" \in DOMAIN r THEN r.citations ELSE <<>>

\* (variant of StoreAnswer: nothing is stored for an empty answer)
StoreAnswerIfAny(history, answer, cites) ==
    IF answer = "" THEN history ELSE AppendTurn(history, AssistantTurn(answer, cites))

\* "Add Assistant Message to History": runs after the spinner block whatever
\* the API call returned
StoreAnswer(history, answer, cites) == AppendTurn(history, AssistantTurn(answer, cites))

\* "result['choices']" on a body that has no such key raises KeyError
HasAnswer(r) == "choices" \in DOMAIN r

\* a query is submitted to the remote program: credential check, user turn,
\* api_messages, and the post inside query_perplexity
RemoteSubmit(p) ==
    /\ variant = "remote"
    /\ Len(messages) + 2 <= MaxHist
    /\ event' = "Submit"
    /\ prompt' = p
    /\ ScriptVarsFresh
    /\ StopsPendingRun
    /\ status' = "none"
    /\ UNCHANGED <<variant, key, model_names, selected_model, malformed>>
    /\ IF CredentialMissing(key)
       THEN \* the text's warning sign is U+26A0 followed by the variation
            \* selector U+FE0F, which a TLA+ string cannot hold and is left out
            /\ ui_error' = "⚠ Please enter your API Key in the sidebar to proceed."
            /\ sent' = Unset
            /\ calls' = SidebarCalls(variant)
            /\ pc' = "idle"
            /\ UNCHANGED <<messages, origin>>
       ELSE /\ messages' = AppendTurn(messages, UserTurn(p))
            /\ origin' = Append(origin, <<>>)
            /\ sent' = query_perplexity(ApiMessages(messages'), key, selected_model)
            /\ calls' = [SidebarCalls(variant) EXCEPT !.api = 1]
            /\ ui_error' = ""
            /\ pc' = "calling"

\* query_perplexity returns: the branch on the error marker and the
\* assistant turn stored after the spinner block
ApiReturn(r) ==
    /\ pc = "calling"
    /\ event' = "ApiReturn"
    /\ result' = r
    /\ pc' = "idle"
    /\ IF IsError(r)
       THEN \* st.error; full_response and citations keep their initial values
            /\ ui_error' = "API Error: " \o r.error
            /\ messages' = StoreAnswer(messages, full_response, citations)
            /\ origin' = Append(origin, produced)
            /\ UNCHANGED <<full_response, citations, produced, placeholder, malformed>>
       ELSE IF HasAnswer(r)
       THEN /\ full_response' = r.choices[1].message.content
            /\ citations' = ResultCitations(r)
            /\ produced' = ResultCitations(r)
            /\ placeholder' = full_response'
            /\ messages' = StoreAnswer(messages, full_response', citations')
            /\ origin' = Append(origin, produced')
            /\ UNCHANGED <<ui_error, malformed>>
       ELSE \* KeyError leaves the script before the assistant append
            /\ ui_error' = "KeyError: 'choices'"
            /\ malformed' = TRUE
            /\ UNCHANGED <<full_response, citations, produced, placeholder, messages,
                           origin>>
    /\ UNCHANGED <<variant, key, model_names, selected_model, prompt, tavily, context,
                   stream, chunks, sent, calls, status, before, interrupted>>

\* the value "Clear Research History" assigns to st.session_state.messages
ClearedHistory == <<>>

\* the sidebar button: reset the history and rerun the script
ClearHistory ==
    /\ variant = "remote"
    /\ event' = "Clear"
    /\ ScriptVarsFresh
    /\ messages' = ClearedHistory
    /\ origin' = <<>>
    /\ malformed' = FALSE
    /\ interrupted' = FALSE
    /\ prompt' = ""
    /\ sent' = Unset
    /\ calls' = SidebarCalls(variant)
    /\ ui_error' = SidebarError(variant, key)
    /\ status' = "none"
    /\ pc' = "idle"
    /\ UNCHANGED <<variant, key, model_names, selected_model>>

----------------------------------------------------------------------------
(* both programs *)

\* the credential text input of the sidebar is edited: the script reruns
\* without a query; the local run waits for the model list, the remote run
\* only redraws the sidebar and the history
SetKey(k) ==
    /\ k # key
    /\ event' = "SetKey"
    /\ key' = k
    /\ ScriptVarsFresh
    /\ StopsPendingRun
    /\ prompt' = ""
    /\ sent' = Unset
    /\ calls' = SidebarCalls(variant)
    /\ ui_error' = ""
    /\ status' = "none"
    /\ pc' = FirstWait(variant)
    /\ UNCHANGED <<variant, model_names, selected_model, messages, origin, malformed>>

\* another entry of the model selectbox is picked: the session holds the
\* pick and the script reruns without a query, as after an edit of the key
SelectModel(i) ==
    /\ model_names[i] # selected_model
    /\ event' = "SelectModel"
    /\ selected_model' = model_names[i]
    /\ ScriptVarsFresh
    /\ StopsPendingRun
    /\ prompt' = ""
    /\ sent' = Unset
    /\ calls' = SidebarCalls(variant)
    /\ ui_error' = ""
    /\ status' = "none"
    /\ pc' = FirstWait(variant)
    /\ UNCHANGED <<variant, key, model_names, messages, origin, malformed>>

\* a session whose first script run has ended: the model list of that run
\* has come back, the sidebar is drawn with the selectbox at its initial
\* value, and 'if "messages" not in st.session_state' has set the empty history
Init ==
    /\ variant \in {"local", "remote"}
    /\ key \in Keys
    /\ \E listing \in OllamaLists :
          model_names = IF variant = "local" THEN ModelNames(listing) ELSE RemoteModels
    /\ selected_model = DefaultModel(model_names)
    /\ messages = <<>>
    /\ pc = "idle"
    /\ prompt = ""
    /\ tavily = Unset
    /\ context = Unset
    /\ citations = <<>>
    /\ stream = <<>>
    /\ chunks = <<>>
    /\ full_response = ""
    /\ placeholder = ""
    /\ result = Unset
    /\ sent = Unset
    /\ calls = SidebarCalls(variant)
    /\ ui_error = SidebarError(variant, key)
    /\ status = "none"
    /\ before = <<>>
    /\ produced = <<>>
    /\ origin = <<>>
    /\ malformed = FALSE
    /\ interrupted = FALSE
    /\ event = "Init"

Next ==
    \/ \E p \in Prompts : LocalSubmit(p)
    \/ \E l \in OllamaLists : ListReturn(l)
    \/ \E o \in TavilyOutcomes, s \in Streams : SearchReturn(o, s)
    \/ StreamChunk
    \/ StreamEnd
    \/ StreamError
    \/ \E p \in Prompts : RemoteSubmit(p)
    \/ \E r \in PerplexityResults : ApiReturn(r)
    \/ ClearHistory
    \/ \E k \in Keys : SetKey(k)
    \/ \E i \in 1..Len(model_names) : SelectModel(i)

Spec == Init /\ [][Next]_vars

----------------------------------------------------------------------------
(* Properties *)

IsPrefix(a, b) == Len(a) <= Len(b) /\ \A i \in 1..Len(a) : a[i] = b[i]

\* tavily.search has returned or raised in this run
SearchReturned == "ok" \in DOMAIN tavily

\* C1+...+Cn, built from the first chunk outwards
RECURSIVE Concat(_)
Concat(cs) == IF cs = <<>> THEN "" ELSE Head(cs) \o Concat(Tail(cs))

\* the context text expected for a result list: one block per result, first result first
RECURSIVE JoinBlocks(_)
JoinBlocks(rs) ==
    IF rs = <<>> THEN ""
    ELSE "\n---\nTitle: " \o Head(rs).title \o "\nURL: " \o Head(rs).url
            \o "\nContent: " \o Head(rs).content \o "\n" \o JoinBlocks(Tail(rs))

\* user, assistant, user, assistant, ... with nothing left over
Alternates(h) ==
    /\ Len(h) % 2 = 0
    /\ \A i \in 1..Len(h) : h[i].role = IF i % 2 = 1 THEN "user" ELSE "assistant"

\* C1 (as claimed): in the remote program, a turn whose API call returned the
\* error object shows an error and leaves the history equal to the history
\* before the turn plus the user's turn, with no assistant turn.
C1_ErrorTurnStoresOnlyUserTurn ==
    (variant = "remote" /\ event = "ApiReturn" /\ IsError(result))
        => /\ ui_error = "API Error: " \o result.error
           /\ messages = Append(before, UserTurn(prompt))

\* C2 (as claimed): in the local program, a search that succeeds with zero
\* results gives an empty context string and an empty citation list, is not
\* reported as a search failure, and the model is still called.
C2_EmptyResultsStillAnswered ==
    (variant = "local" /\ event = "SearchReturn" /\ tavily.ok /\ tavily.results = <<>>)
        => /\ context = Text("")
           /\ citations = <<>>
           /\ status # "error"
           /\ ui_error = ""
           /\ calls.chat = 1
           /\ pc = "streaming"

\* the error the main script shows for a query without a credential
MissingKeyError ==
    IF variant = "local" THEN "Please enter your Tavily API Key in the sidebar."
    ELSE "⚠ Please enter your API Key in the sidebar to proceed."

\* C3 (as claimed): in both programs, a query submitted while the credential
\* is empty makes no network call in its turn (every call count is 0), the
\* turn ends with the main script's error shown, and no assistant turn is
\* stored: the history is the one before the turn, or that plus the user's
\* turn.
C3_NoCallAndErrorSurfaced ==
    [][ /\ (prompt' # "" /\ key' = "")
            => /\ calls'.search = 0 /\ calls'.chat = 0 /\ calls'.api = 0
               /\ calls'.list = 0
               /\ pc' = "idle" => ui_error' = MissingKeyError
               /\ \/ messages' = before'
                  \/ messages' = Append(before', UserTurn(prompt'))
        /\ (prompt # "" /\ key = "" /\ pc # "idle")
            => /\ pc' = "idle" /\ prompt' = prompt
               /\ ui_error' = MissingKeyError ]_vars

\* C3 (amended): in both programs, a query submitted while the credential is
\* empty makes no search, chat or API call in its turn; the only network
\* call of the turn is the model-list request the local sidebar makes in
\* every run (the remote program makes none).  While the local run waits
\* for that list nothing is shown yet; once the list is back the turn has
\* ended with the main script's error shown (a run that another widget
\* event stops in that wait is replaced by the run of that event).  No
\* assistant turn is stored: the history is the one before the turn, or
\* that plus the user's turn.
C3_MissingCredentialAborts ==
    (prompt # "" /\ key = "")
        => /\ calls.search = 0 /\ calls.chat = 0 /\ calls.api = 0
           /\ calls.list = IF variant = "local" THEN 1 ELSE 0
           /\ \/ variant = "local" /\ pc = "listing" /\ ui_error = ""
              \/ pc = "idle" /\ ui_error = MissingKeyError
           /\ \/ messages = before
              \/ messages = Append(before, UserTurn(prompt))

C3_Witness ==
    /\ variant = "local" /\ event = "ListReturn"
    /\ key = "" /\ prompt \in Prompts
    /\ Len(before) = 2 /\ messages = before
    /\ calls.list = 1 /\ pc = "idle"
    /\ ui_error = "Please enter your Tavily API Key in the sidebar."

\* C4: in the local program, when tavily.search raises, the turn ends before
\* the model is called, the error is shown, and the history is the one before
\* the turn plus the user's turn only.
C4_SearchFailureHalts ==
    (variant = "local" /\ SearchReturned /\ ~tavily.ok)
        => /\ pc = "idle"
           /\ calls.search = 1
           /\ calls.chat = 0
           /\ sent = Unset
           /\ status = "error"
           /\ ui_error = "Could not retrieve search results."
           /\ messages = Append(before, UserTurn(prompt))

C4_Witness ==
    /\ variant = "local" /\ event = "SearchReturn" /\ ~tavily.ok
    /\ context = None /\ Len(before) = 2

\* C5: in the local program no assistant turn is stored while chunks are
\* still being read, and the turn stored when the stream is exhausted has as
\* content the chunks taken from the stream, concatenated in arrival order.
C5_AnswerIsConcatenation ==
    /\ pc = "streaming" => messages = Append(before, UserTurn(prompt))
    /\ event = "StreamEnd"
        => /\ stream = <<>>
           /\ Len(messages) = Len(before) + 2
           /\ messages[Len(messages)].role = "assistant"
           /\ messages[Len(messages)].content = Concat(chunks)

C5_Witness ==
    /\ event = "StreamEnd" /\ Len(chunks) = 3
    /\ messages[Len(messages)].content = "Revenue up 10%."

\* C6: every stored assistant turn carries the citation list that the
\* search (local) or the API response (remote) produced in the run that
\* stored it, whatever happened in the turns before and after.
C6_CitationsOfOwnTurn ==
    /\ Len(origin) = Len(messages)
    /\ \A i \in 1..Len(messages) :
          messages[i].role = "assistant" => messages[i].citations = origin[i]

C6_Witness ==
    /\ Len(messages) = 4
    /\ messages[2].role = "assistant" /\ messages[4].role = "assistant"
    /\ messages[2].citations # <<>>
    /\ messages[4].citations # <<>>
    /\ messages[2].citations # messages[4].citations

\* C7: every step leaves the history before it as a prefix of the history
\* after it, except the reset, which leaves the empty history.
C7_AppendOnly ==
    [][ IF event' = "Clear"
        THEN messages' = <<>>
        ELSE IsPrefix(messages, messages') ]_vars

C7_Witness == event = "Clear" /\ Len(before) = 4 /\ messages = <<>>

\* C8: for every result list R that tavily.search returns, search_web gives
\* Len(R) citations, the i-th being "[title](url)" of the i-th result, and a
\* context text made of the results' blocks in the order of R.
C8_FormatterKeepsOrder ==
    (variant = "local" /\ SearchReturned /\ tavily.ok)
        => /\ Len(citations) = Len(tavily.results)
           /\ \A i \in 1..Len(tavily.results) :
                 citations[i] = "[" \o tavily.results[i].title \o "]("
                                    \o tavily.results[i].url \o ")"
           /\ context = Text(JoinBlocks(tavily.results))

C8_Witness ==
    /\ variant = "local" /\ SearchReturned /\ tavily.ok
    /\ Len(tavily.results) = 3 /\ Len(citations) = 3

\* C9: in the remote program the message list sent to the API is the system
\* instruction, then every stored turn in order reduced to role and content,
\* then the current query as the last message.
C9_WholeHistorySent ==
    (variant = "remote" /\ calls.api = 1)
        => /\ Len(sent.messages) = Len(before) + 2
           /\ sent.messages[1] = [role |-> "system", content |-> RemoteSystemInstruction]
           /\ \A i \in 1..Len(before) :
                 sent.messages[i + 1] =
                     [role |-> before[i].role, content |-> before[i].content]
           /\ sent.messages[Len(sent.messages)] = [role |-> "user", content |-> prompt]

C9_Witness ==
    /\ variant = "remote" /\ calls.api = 1 /\ Len(before) = 2
    /\ before[2] = AssistantTurn("", <<>>)
    /\ sent.messages[3] = [role |-> "assistant", content |-> ""]

\* what C10 says of the local program: a search that raised ends the turn
\* with a user turn last
LocalFailureLeavesUserLast ==
    (variant = "local" /\ event = "SearchReturn" /\ ~tavily.ok)
        => /\ pc = "idle"
           /\ messages # <<>>
           /\ messages[Len(messages)].role = "user"

\* C10 (as claimed): in the remote program, as long as every API call
\* returned an answer or the error object, the history at the end of every
\* turn has even length and roles user, assistant, user, assistant, ...; in
\* the local program a search that raised leaves a user turn last.
C10_RemoteAlternatesAlways ==
    /\ (variant = "remote" /\ ~malformed /\ pc = "idle") => Alternates(messages)
    /\ LocalFailureLeavesUserLast

\* C10 (amended): in the remote program, as long as since the last reset
\* every API call returned an answer or the error object and no run was
\* stopped by another widget event while it waited for the API, the history
\* at the end of every turn has even length and roles user, assistant, user,
\* assistant, ..., and while a run waits it is that plus the user's turn; in
\* the local program a search that raised leaves a user turn last.
C10_RemoteAlternatesUninterrupted ==
    /\ (variant = "remote" /\ ~malformed /\ ~interrupted)
        => /\ pc = "idle" => Alternates(messages)
           /\ pc = "calling" =>
                 /\ Alternates(before)
                 /\ messages = Append(before, UserTurn(prompt))
    /\ LocalFailureLeavesUserLast

C10_Witness ==
    /\ variant = "remote" /\ ~malformed /\ ~interrupted
    /\ event = "ApiReturn" /\ IsError(result)
    /\ Len(messages) = 4
    /\ messages[2].content # "" /\ messages[4].content = ""

====
